---- MODULE Spec2Model ----
(***************************************************************************)
(* Model of the main process of the file de-duplication and copy tool      *)
(* (src/unnamed/part_000): the IPC handlers start-process, pause-process,  *)
(* resume-process, merge-folders and confirm-merge, the global `state`     *)
(* object they share, and the helpers they call (hashFile, scanDirectory,  *)
(* buildFolderSignature, mergeFolderRecursive, ...).                       *)
(*                                                                         *)
(* Node runs the handlers on one thread: a handler runs without            *)
(* interruption from one `await` to the next, and other handlers (and the  *)
(* read stream's data/end events) run only while it is suspended.  Every   *)
(* action below is therefore one such run-to-the-next-await segment.  The  *)
(* segments are written as operators on a "world" record                   *)
(*    [st  |-> the global state object,                                    *)
(*     l   |-> the locals of the handler invocation,                       *)
(*     fs  |-> the destination file system,                                *)
(*     ev  |-> the events the invocation has sent,                         *)
(*     log |-> the copies performed so far (observation only)]             *)
(*                                                                         *)
(* Names are sequences of one-character strings, so that indexOf,          *)
(* substring and extname are computed as the code computes them.  A path   *)
(* is a sequence of names.  A file's content is a sequence of chunks (the  *)
(* units the read stream delivers); its size is the number of chunks.  A   *)
(* SHA-256 digest is modelled by the sequence of chunks that were fed to   *)
(* hash.update, i.e. as a collision-free hash.                             *)
(***************************************************************************)
EXTENDS Integers, Sequences, FiniteSets, TLC

(***************************************************************************)
(* Bounds of the model.                                                    *)
(***************************************************************************)
\* number of things the environment does to the program: the invocations of
\* the renderer (start, pause, resume, merge, confirm) and the failures of
\* I/O operations (hashError, copyError)
MaxOps == 3

(***************************************************************************)
(* Strings.                                                                *)
(***************************************************************************)
Alphabet == <<"_", ".", "1", "2", "3", "a", "b", "c", "d", "p", "s", "t", "T">>

Rank(c) == CHOOSE i \in 1..Len(Alphabet) : Alphabet[i] = c

\* String.prototype.indexOf(ch): 0-based index of the first ch, or -1
IndexOf(s, ch) ==
    IF \E i \in 1..Len(s) : s[i] = ch
    THEN (CHOOSE i \in 1..Len(s) : s[i] = ch /\ \A j \in 1..(i-1) : s[j] # ch) - 1
    ELSE -1

\* String.prototype.lastIndexOf(ch)
LastIndexOf(s, ch) ==
    IF \E i \in 1..Len(s) : s[i] = ch
    THEN (CHOOSE i \in 1..Len(s) : s[i] = ch /\ \A j \in (i+1)..Len(s) : s[j] # ch) - 1
    ELSE -1

\* a.localeCompare(b) < 0, on the model's alphabet
RECURSIVE StrLess(_, _)
StrLess(a, b) ==
    IF b = <<>> THEN FALSE
    ELSE IF a = <<>> THEN TRUE
    ELSE IF Head(a) # Head(b) THEN Rank(Head(a)) < Rank(Head(b))
    ELSE StrLess(Tail(a), Tail(b))

LowerChar(c) == IF c = "T" THEN "t" ELSE c
toLowerCase(s) == [i \in 1..Len(s) |-> LowerChar(s[i])]

\* path.extname(name).slice(1): the characters after the last dot ("" when
\* there is no dot or the only dot is the first character)
extname(name) ==
    LET d == LastIndexOf(name, ".")
    IN  IF d <= 0 THEN <<>> ELSE SubSeq(name, d + 2, Len(name))

\* path.basename(name, ext) with ext = path.extname(name)
stem(name) ==
    LET d == LastIndexOf(name, ".")
    IN  IF d <= 0 THEN name ELSE SubSeq(name, 1, d)

\* a normalisation that cuts at the last underscore instead of the first
normalizeAtLastUnderscore(folderName) ==
    LET underscoreIndex == LastIndexOf(folderName, "_")
    IN  IF underscoreIndex # -1
        THEN SubSeq(folderName, 1, underscoreIndex)
        ELSE folderName

normalizeFolderName(folderName) ==
    LET underscoreIndex == IndexOf(folderName, "_")
    IN  IF underscoreIndex # -1
        THEN SubSeq(folderName, 1, underscoreIndex)
        ELSE folderName

(***************************************************************************)
(* Sequences and sets.                                                     *)
(***************************************************************************)
Range(s) == {s[i] : i \in 1..Len(s)}

RECURSIVE Concat(_)
Concat(ss) == IF ss = <<>> THEN <<>> ELSE Head(ss) \o Concat(Tail(ss))

Reverse(s) == [i \in 1..Len(s) |-> s[Len(s) + 1 - i]]

\* the names of a set in ascending order
RECURSIVE SortNames(_)
SortNames(S) ==
    IF S = {} THEN <<>>
    ELSE LET m == CHOOSE x \in S : \A y \in S \ {x} : StrLess(x, y)
         IN  <<m>> \o SortNames(S \ {m})

\* Array.prototype.sort((a, b) => a.name.localeCompare(b.name)): a stable
\* insertion of each element behind the elements that are not greater
RECURSIVE SortByName(_)
Insert(x, s) ==
    LET k == Cardinality({i \in 1..Len(s) : ~StrLess(x.name, s[i].name)})
    IN  SubSeq(s, 1, k) \o <<x>> \o SubSeq(s, k + 1, Len(s))
SortByName(s) ==
    IF s = <<>> THEN <<>>
    ELSE Insert(s[Len(s)], SortByName(SubSeq(s, 1, Len(s) - 1)))

(***************************************************************************)
(* Hashing.  ContentKey is the string `${size}:${hash}`.                   *)
(***************************************************************************)
ContentKey(size, hash) == <<size, hash>>

\* the key of a file whose whole content went through the digest
TrueKey(content) == ContentKey(Len(content), content)

\* a signature that digests the triples in the order they were enumerated
SignatureUnsorted(fileHashes) ==
    [i \in 1..Len(fileHashes) |->
        <<fileHashes[i].name, fileHashes[i].size, fileHashes[i].hash>>]

\* the folder signature: the digest of the name:size:hash strings of the
\* triples sorted by name
Signature(fileHashes) ==
    LET sorted == SortByName(fileHashes)
    IN  [i \in 1..Len(sorted) |-> <<sorted[i].name, sorted[i].size, sorted[i].hash>>]


(***************************************************************************)
(* The file systems.  The sources are read-only: a sequence of roots       *)
(*    [name, entries], an entry being [isDir, name, content, entries]      *)
(* in the order readdir returns them.  The destination is                  *)
(*    [files |-> set of [dir, name, content], dirs |-> set of names]       *)
(* with dir = <<>> for the destination root itself (path.join(dest, "")).  *)
(* Destination directories are one level deep: every copy the program     *)
(* makes from the modelled sources lands in the root or in a top-level     *)
(* directory.                                                              *)
(***************************************************************************)
VARIABLES
    state,       \* the global `state` object (part_000 lines 8-23)
    loc,         \* the locals of the running invocation of each handler
    fs,          \* the destination tree
    sent,        \* per handler: the events its current invocation has sent
    log,         \* the copies performed, in order (observation only)
    ops,         \* the renderer's invocations and the I/O failures, in order
    src,         \* the source roots (argument sourceFolders)
    fs0,         \* the destination tree when start-process was last invoked
                 \* (initially: as given; observation only)
    extensions,  \* argument extensions
    orderRev,    \* readdir order of directories: ascending or descending
    proposal     \* payload of the last merge-confirmation event

vars == <<state, loc, fs, sent, log, ops, src, fs0, extensions, orderRev, proposal>>

File(name, content) == [isDir |-> FALSE, name |-> name, content |-> content, entries |-> <<>>]
Dir(name, entries) == [isDir |-> TRUE, name |-> name, content |-> <<>>, entries |-> entries]
DFile(dir, name, content) == [dir |-> dir, name |-> name, content |-> content]

Root == <<>>

\* fs.access / fs.stat succeed on the path of a file
FileExists(f, dir, name) == \E x \in f.files : x.dir = dir /\ x.name = name
DirExists(f, dir) == dir = Root \/ dir \in f.dirs
ReadFile(f, dir, name) == (CHOOSE x \in f.files : x.dir = dir /\ x.name = name).content

\* fs.mkdir(path, {recursive: true})
Mkdir(f, dir) == IF dir = Root THEN f ELSE [f EXCEPT !.dirs = @ \cup {dir}]

\* fs.copyFile(source, dest): replaces an existing file at dest
WriteFile(f, dir, name, content) ==
    [f EXCEPT !.files = {x \in @ : ~(x.dir = dir /\ x.name = name)}
                            \cup {DFile(dir, name, content)}]

\* fs.rm(path, {recursive: true, force: true})
RemoveDir(f, dir) ==
    [files |-> {x \in f.files : x.dir # dir}, dirs |-> f.dirs \ {dir}]

\* readdir(dir): the file names of a directory, and the directories of the root
FileNames(f, dir) == SortNames({x.name : x \in {y \in f.files : y.dir = dir}})
DirNames(f, rev) == IF rev THEN Reverse(SortNames(f.dirs)) ELSE SortNames(f.dirs)

\* the ContentKeys of everything under the destination root
AllKeys(f) == {TrueKey(x.content) : x \in f.files}

(***************************************************************************)
(* scanDirectory (lines 84-139), for a root whose directories are leaves.  *)
(***************************************************************************)
Allowed(name, allowedExtensions) ==
    \/ allowedExtensions = {}
    \/ toLowerCase(extname(name)) \in allowedExtensions

FileInfo(rootName, dirName, e) ==
    [path               |-> IF dirName = Root THEN <<rootName, e.name>>
                                              ELSE <<rootName, dirName, e.name>>,
     size               |-> Len(e.content),
     name               |-> e.name,
     folderPath         |-> IF dirName = Root THEN <<rootName>> ELSE <<rootName, dirName>>,
     folderRelativePath |-> IF dirName = Root THEN <<>> ELSE <<dirName>>]

MatchingFiles(rootName, dirName, entries, allowedExtensions) ==
    LET es == SelectSeq(entries, LAMBDA e : ~e.isDir /\ Allowed(e.name, allowedExtensions))
    IN  [i \in 1..Len(es) |-> FileInfo(rootName, dirName, es[i])]

\* the contribution of one entry of the root to fileList and folderList
ScanEntry(root, e, allowedExtensions) ==
    IF e.isDir
    THEN LET folderFiles == MatchingFiles(root.name, e.name, e.entries, allowedExtensions)
         IN  [files   |-> folderFiles,
              folders |-> IF Len(folderFiles) > 0
                          THEN << [path |-> <<root.name, e.name>>, files |-> folderFiles,
                                   isLeaf |-> TRUE] >>
                          ELSE <<>>]
    ELSE [files   |-> MatchingFiles(root.name, Root, <<e>>, allowedExtensions),
          folders |-> <<>>]

scanDirectory(root, allowedExtensions) ==
    LET parts == [i \in 1..Len(root.entries) |->
                      ScanEntry(root, root.entries[i], allowedExtensions)]
        folderFiles == MatchingFiles(root.name, Root, root.entries, allowedExtensions)
        hasSubDirectories == \E i \in 1..Len(root.entries) : root.entries[i].isDir
    IN  [files   |-> Concat([i \in 1..Len(parts) |-> parts[i].files]),
         folders |-> Concat([i \in 1..Len(parts) |-> parts[i].folders])
                     \o (IF Len(folderFiles) > 0 \/ hasSubDirectories
                         THEN << [path |-> <<root.name>>, files |-> folderFiles,
                                  isLeaf |-> ~hasSubDirectories] >>
                         ELSE <<>>)]

\* the content of a source file, by the path scanDirectory recorded
SourceContent(path) ==
    LET root == CHOOSE i \in 1..Len(src) : src[i].name = path[1]
        es   == src[root].entries
    IN  IF Len(path) = 2
        THEN (CHOOSE e \in Range(es) : ~e.isDir /\ e.name = path[2]).content
        ELSE LET d == CHOOSE e \in Range(es) : e.isDir /\ e.name = path[2]
             IN  (CHOOSE e \in Range(d.entries) : e.name = path[3]).content

\* readdir of a source leaf folder: all of its files, filtered or not
SourceEntries(folderPath) ==
    LET root == CHOOSE i \in 1..Len(src) : src[i].name = folderPath[1]
        es   == src[root].entries
    IN  IF Len(folderPath) = 1
        THEN SelectSeq(es, LAMBDA e : ~e.isDir)
        ELSE (CHOOSE e \in Range(es) : e.isDir /\ e.name = folderPath[2]).entries

(***************************************************************************)
(* Handler invocations.  Each handler has one slot: a second invocation of *)
(* the same handler is modelled only after the first has returned.         *)
(***************************************************************************)
Handlers == {"start", "resume", "merge", "confirm"}

NoStream == [content |-> <<>>, pos |-> 0, acc |-> <<>>]

NoFile == [path |-> <<>>, size |-> 0, name |-> <<>>, folderPath |-> <<>>,
           folderRelativePath |-> <<>>]

Locals(h) ==
    [handler |-> h, pc |-> "idle",
     allowedExtensions |-> {}, destinationMap |-> {}, destinationFolderSignatures |-> {},
     todo |-> <<>>, k |-> 1, todo2 |-> <<>>, j |-> 1, fileHashes |-> <<>>,
     folderGroupsByName |-> <<>>, gi |-> 1, mi |-> 1,
     destFolderPath |-> Root, fileHashMap |-> {},
     sourcePath |-> <<>>, entries |-> <<>>, ei |-> 1,
     processedFiles |-> {}, i |-> 0, file |-> NoFile,
     uniquePath |-> <<>>, counter |-> 1, key |-> <<>>,
     stream |-> NoStream, foldersToMerge |-> <<>>]

NoEvents == [processComplete |-> 0, mergeComplete |-> 0, mergeConfirmation |-> 0]

ZeroStats == [scanned |-> 0, copied |-> 0, duplicates |-> 0, sizeCopied |-> 0]

\* number of start-process invocations so far
Runs == Cardinality({n \in 1..Len(ops) : ops[n] = "start"})

\* a copy made by fs.copyFile, as the log records it
Copy(h, phase, from, dir, name, content) ==
    [by |-> h, phase |-> phase, from |-> from, dir |-> dir, name |-> name,
     content |-> content, run |-> Runs]

\* createReadStream(filePath) inside hashFile (lines 63-64)
OpenStream(w, content, pc) ==
    [w EXCEPT !.l.pc = pc, !.l.stream = [content |-> content, pos |-> 0, acc |-> <<>>]]

RECURSIVE SumSizes(_)
SumSizes(files) == IF files = <<>> THEN 0 ELSE Head(files).size + SumSizes(Tail(files))

IsPrefix(a, b) == Len(a) <= Len(b) /\ SubSeq(b, 1, Len(a)) = a

\* readdir(dir, {recursive: true, withFileTypes: true}) followed by
\* path.join(dir, entry.name): entry.name is the base name of the entry, so
\* a file of a subdirectory is looked up directly under dir
RecursiveNames(f, dir) ==
    IF dir = Root
    THEN FileNames(f, Root)
         \o Concat([n \in 1..Len(DirNames(f, orderRev)) |->
                        FileNames(f, DirNames(f, orderRev)[n])])
    ELSE FileNames(f, dir)

(***************************************************************************)
(* The end of a run (lines 606-611, 916-921) and of the merge handlers.    *)
(***************************************************************************)
Returned(w) == [w EXCEPT !.l = [Locals(w.l.handler) EXCEPT !.pc = "done"]]

\* Finish without the test of the pause flag
FinishAlways(w) == Returned([w EXCEPT !.ev.processComplete = @ + 1])

Finish(w) ==
    IF ~w.st.paused
    THEN Returned([w EXCEPT !.ev.processComplete = @ + 1])
    ELSE Returned(w)

(***************************************************************************)
(* The file pass (lines 510-604 and 820-914).                              *)
(***************************************************************************)
RECURSIVE FileLoop(_)
FileLoop(w) ==
    IF w.l.i >= Len(w.st.fileList) THEN Finish(w)
    ELSE IF w.st.paused THEN Finish([w EXCEPT !.st.currentIndex = w.l.i])
    ELSE LET file == w.st.fileList[w.l.i + 1]
         IN  IF file.path \in w.l.processedFiles
             THEN FileLoop([w EXCEPT !.l.i = @ + 1])
             ELSE OpenStream([w EXCEPT !.st.stats.scanned = @ + 1, !.l.file = file],
                             SourceContent(file.path), "fileHash")

FileNext(w) == FileLoop([w EXCEPT !.l.i = @ + 1, !.l.file = NoFile,
                                  !.l.uniquePath = <<>>, !.l.counter = 1])

processedFiles(st) ==
    {file.path : file \in
        {g \in Range(st.fileList) :
            \E folderPath \in st.copiedFolders :
                \/ g.folderPath = folderPath
                \/ (IsPrefix(folderPath, g.path) /\ Len(g.path) > Len(folderPath))}}

FileStart(w, from) ==
    FileLoop([w EXCEPT !.l.processedFiles = processedFiles(w.st), !.l.i = from,
                       !.l.todo = <<>>, !.l.todo2 = <<>>, !.l.fileHashes = <<>>,
                       !.l.k = 1, !.l.j = 1, !.l.gi = 1, !.l.mi = 1, !.l.ei = 1,
                       !.l.folderGroupsByName = <<>>, !.l.fileHashMap = {},
                       !.l.entries = <<>>, !.l.sourcePath = <<>>,
                       !.l.destFolderPath = Root])

\* lines 554-562: the destination directory of a file of the file pass
FileDestFolder(file) ==
    IF file.folderRelativePath # <<>>
    THEN normalizeFolderName(file.folderRelativePath[1])
    ELSE Root

\* hashFile has settled for file i (lines 539-569)
FileHashed(w, rejected, hash) ==
    IF rejected THEN FileNext(w)
    ELSE IF w.st.paused THEN Finish([w EXCEPT !.st.currentIndex = w.l.i])
    ELSE LET key == ContentKey(w.l.file.size, hash)
         IN  IF key \in w.st.deduplicationMap \/ key \in w.l.destinationMap
             THEN FileNext([w EXCEPT !.st.stats.duplicates = @ + 1])
             ELSE [w EXCEPT !.st.deduplicationMap = @ \cup {key},
                            !.fs = Mkdir(@, FileDestFolder(w.l.file)),
                            !.l.destFolderPath = FileDestFolder(w.l.file),
                            !.l.pc = "fileAccess"]

\* the first fs.access(destPath) has settled (lines 571-579)
FileAccessed(w) ==
    IF FileExists(w.fs, w.l.destFolderPath, w.l.file.name)
    THEN FileNext([w EXCEPT !.st.stats.duplicates = @ + 1])
    ELSE [w EXCEPT !.l.uniquePath = w.l.file.name, !.l.counter = 1, !.l.pc = "fileProbe"]

Digit(n) == IF n = 1 THEN "1" ELSE IF n = 2 THEN "2" ELSE "3"

\* `${base}_${counter}${ext}` (lines 583-586)
Renamed(fileName, counter) ==
    stem(fileName) \o <<"_", Digit(counter)>>
        \o (IF extname(fileName) = <<>> THEN <<>> ELSE <<".">> \o extname(fileName))

\* fs.access(uniquePath) of the rename loop has settled (lines 580-591)
FileProbed(w) ==
    IF FileExists(w.fs, w.l.destFolderPath, w.l.uniquePath)
    THEN [w EXCEPT !.l.uniquePath = Renamed(w.l.file.name, w.l.counter),
                   !.l.counter = @ + 1]
    ELSE [w EXCEPT !.l.pc = "fileCopy"]

\* fs.copyFile(file.path, uniquePath) has rejected: the catch of line 601
FileCopyFailed(w) == FileNext(w)

\* fs.copyFile(file.path, uniquePath) has settled (lines 593-603)
FileCopied(w) ==
    IF ~DirExists(w.fs, w.l.destFolderPath) THEN FileNext(w)
    ELSE FileNext([w EXCEPT
            !.fs = WriteFile(@, w.l.destFolderPath, w.l.uniquePath,
                             SourceContent(w.l.file.path)),
            !.log = Append(@, Copy(w.l.handler, "file", w.l.file.path,
                                   w.l.destFolderPath, w.l.uniquePath,
                                   SourceContent(w.l.file.path))),
            !.st.stats.copied = @ + 1,
            !.st.stats.sizeCopied = @ + w.l.file.size])

(***************************************************************************)
(* The Folder Merge phase of start-process (lines 406-508),                *)
(* mergeFolderRecursive (lines 199-234) and the loops of confirm-merge     *)
(* (lines 725-768) that share it.                                          *)
(***************************************************************************)
RECURSIVE MergeEntryLoop(_)
RECURSIVE MemberLoop(_)
RECURSIVE GroupLoop(_)
RECURSIVE GroupMapLoop(_)
RECURSIVE ConfirmFolderLoop(_)
RECURSIVE ConfirmGroupLoop(_)

\* lines 488-506 after mergeFolderRecursive has returned; line 763 in confirm-merge
MergeReturn(w) ==
    IF w.l.handler = "start"
    THEN LET folderData == w.l.folderGroupsByName[w.l.gi].members[w.l.mi]
         IN  MemberLoop([w EXCEPT
                 !.st.copiedFolders = @ \cup {w.l.sourcePath},
                 !.st.stats.copied = @ + folderData.signature.fileCount,
                 !.st.stats.sizeCopied = @ + folderData.signature.totalSize,
                 !.st.folderReport = Append(@, [sourcePath      |-> w.l.sourcePath,
                                                destinationPath |-> w.l.destFolderPath,
                                                status          |-> "Copied"]),
                 !.l.mi = @ + 1, !.l.entries = <<>>, !.l.ei = 1, !.l.sourcePath = <<>>])
    ELSE [w EXCEPT !.l.pc = "confirmRm", !.l.entries = <<>>, !.l.ei = 1]

\* the loop of mergeFolderRecursive, at an entry (lines 204-216)
MergeEntryLoop(w) ==
    IF w.l.ei > Len(w.l.entries) \/ w.st.paused THEN MergeReturn(w)
    ELSE LET name == w.l.entries[w.l.ei]
         IN  IF w.l.handler = "start"
             THEN OpenStream(w, SourceContent(w.l.sourcePath \o <<name>>), "mergeHash")
             ELSE IF FileExists(w.fs, w.l.sourcePath, name)
             THEN OpenStream(w, ReadFile(w.fs, w.l.sourcePath, name), "mergeHash")
             ELSE MergeEntryLoop([w EXCEPT !.l.ei = @ + 1])

\* hashFile has settled inside mergeFolderRecursive (lines 216-225)
MergeHashed(w, rejected, size, hash) ==
    IF rejected THEN MergeEntryLoop([w EXCEPT !.l.ei = @ + 1])
    ELSE LET key == ContentKey(size, hash)
         IN  IF key \notin w.l.fileHashMap
             THEN [w EXCEPT !.l.key = key, !.l.pc = "mergeCopy"]
             ELSE MergeEntryLoop([w EXCEPT !.l.ei = @ + 1])

\* fs.copyFile(sourceEntry, destEntry) has rejected: the catch of line 223
MergeCopyFailed(w) == MergeEntryLoop([w EXCEPT !.l.ei = @ + 1, !.l.key = <<>>])

\* fs.copyFile(sourceEntry, destEntry) has settled (lines 220-221)
MergeCopied(w) ==
    LET name   == w.l.entries[w.l.ei]
        there  == w.l.handler = "start" \/ FileExists(w.fs, w.l.sourcePath, name)
        bytes  == IF w.l.handler = "start"
                  THEN SourceContent(w.l.sourcePath \o <<name>>)
                  ELSE ReadFile(w.fs, w.l.sourcePath, name)
        from   == IF w.l.handler = "start"
                  THEN w.l.sourcePath \o <<name>>
                  ELSE <<w.l.sourcePath, name>>
    IN  IF ~there \/ ~DirExists(w.fs, w.l.destFolderPath)
        THEN MergeEntryLoop([w EXCEPT !.l.ei = @ + 1, !.l.key = <<>>])
        ELSE MergeEntryLoop([w EXCEPT
                !.fs = WriteFile(@, w.l.destFolderPath, name, bytes),
                !.log = Append(@, Copy(w.l.handler, "merge", from,
                                       w.l.destFolderPath, name, bytes)),
                !.l.fileHashMap = @ \cup {w.l.key},
                !.l.ei = @ + 1, !.l.key = <<>>])

\* the loop over the members of a group (lines 473-486)
MemberLoop(w) ==
    LET group == w.l.folderGroupsByName[w.l.gi]
    IN  IF w.l.mi > Len(group.members) \/ w.st.paused
        THEN GroupLoop([w EXCEPT !.l.gi = @ + 1, !.l.mi = 1])
        ELSE LET folderData == group.members[w.l.mi]
                 sourcePath == folderData.folderInfo.path
             IN  IF folderData.signature.hash \in w.l.destinationFolderSignatures
                 THEN MemberLoop([w EXCEPT
                         !.st.copiedFolders = @ \cup {sourcePath},
                         !.st.stats.duplicates = @ + folderData.signature.fileCount,
                         !.st.folderReport =
                             Append(@, [sourcePath      |-> sourcePath,
                                        destinationPath |-> w.l.destFolderPath,
                                        status |-> "Duplicate (Exists in Destination)"]),
                         !.l.mi = @ + 1])
                 ELSE MergeEntryLoop([w EXCEPT
                         !.fs = Mkdir(@, w.l.destFolderPath),
                         !.l.sourcePath = sourcePath,
                         !.l.entries = [n \in 1..Len(SourceEntries(sourcePath)) |->
                                            SourceEntries(sourcePath)[n].name],
                         !.l.ei = 1])

\* the loop that fills fileHashMap from the existing destination folder
\* (lines 445-458 and 740-753)
GroupMapLoop(w) ==
    IF w.l.j > Len(w.l.todo2)
    THEN IF w.l.handler = "start"
         THEN MemberLoop([w EXCEPT !.l.mi = 1, !.l.todo2 = <<>>, !.l.j = 1])
         ELSE ConfirmFolderLoop([w EXCEPT !.l.mi = 1, !.l.todo2 = <<>>, !.l.j = 1])
    ELSE IF FileExists(w.fs, w.l.destFolderPath, w.l.todo2[w.l.j])
    THEN OpenStream(w, ReadFile(w.fs, w.l.destFolderPath, w.l.todo2[w.l.j]), "groupMapHash")
    ELSE GroupMapLoop([w EXCEPT !.l.j = @ + 1])

GroupMapHashed(w, rejected, size, hash) ==
    IF rejected THEN GroupMapLoop([w EXCEPT !.l.j = @ + 1])
    ELSE GroupMapLoop([w EXCEPT !.l.fileHashMap = @ \cup {ContentKey(size, hash)},
                                !.l.j = @ + 1])

\* the loop over the groups (lines 432-471)
GroupLoop(w) ==
    IF w.l.gi > Len(w.l.folderGroupsByName) \/ w.st.paused THEN FileStart(w, 0)
    ELSE LET destFolderPath == w.l.folderGroupsByName[w.l.gi].name
         IN  IF DirExists(w.fs, destFolderPath)
             THEN GroupMapLoop([w EXCEPT !.l.destFolderPath = destFolderPath,
                                         !.l.fileHashMap = {},
                                         !.l.todo2 = RecursiveNames(w.fs, destFolderPath),
                                         !.l.j = 1])
             ELSE MemberLoop([w EXCEPT !.fs = Mkdir(@, destFolderPath),
                                       !.l.destFolderPath = destFolderPath,
                                       !.l.fileHashMap = {}, !.l.mi = 1])

\* the loop over the folders of a group of confirm-merge (lines 757-767)
ConfirmFolderLoop(w) ==
    LET folders == w.l.foldersToMerge[w.l.gi].folders
    IN  IF w.l.mi > Len(folders) \/ w.st.paused
        THEN ConfirmGroupLoop([w EXCEPT !.l.gi = @ + 1, !.l.mi = 1])
        ELSE IF folders[w.l.mi].path = w.l.destFolderPath
        THEN ConfirmFolderLoop([w EXCEPT !.l.mi = @ + 1])
        ELSE IF ~DirExists(w.fs, folders[w.l.mi].path)
        THEN ConfirmFolderLoop([w EXCEPT !.fs = Mkdir(@, w.l.destFolderPath),
                                         !.l.mi = @ + 1])
        ELSE MergeEntryLoop([w EXCEPT
                !.fs = Mkdir(@, w.l.destFolderPath),
                !.l.sourcePath = folders[w.l.mi].path,
                !.l.entries = FileNames(w.fs, folders[w.l.mi].path),
                !.l.ei = 1])

\* fs.rm(folder.path) has settled (line 763)
ConfirmRemoved(w) ==
    ConfirmFolderLoop([w EXCEPT !.fs = RemoveDir(@, w.l.sourcePath),
                                !.l.sourcePath = <<>>, !.l.mi = @ + 1])

\* the loop over the groups of confirm-merge (lines 725-755, 770)
ConfirmGroupLoop(w) ==
    IF w.l.gi > Len(w.l.foldersToMerge) \/ w.st.paused
    THEN Returned([w EXCEPT !.ev.mergeComplete = @ + 1])
    ELSE LET targetFolder == w.l.foldersToMerge[w.l.gi].folders[1].path
         IN  GroupMapLoop([w EXCEPT
                 !.l.destFolderPath = targetFolder,
                 !.l.fileHashMap = {},
                 !.l.todo2 = IF DirExists(w.fs, targetFolder)
                             THEN RecursiveNames(w.fs, targetFolder) ELSE <<>>,
                 !.l.j = 1])

(***************************************************************************)
(* Grouping the source leaf folders by normalized name (lines 406-430).    *)
(***************************************************************************)
\* folderGroupsByName.get(normalizedName).push(member), the Map keeping the
\* order in which its keys were first set
AddToGroup(groups, normalizedName, member) ==
    IF \E g \in 1..Len(groups) : groups[g].name = normalizedName
    THEN [g \in 1..Len(groups) |->
             IF groups[g].name = normalizedName
             THEN [groups[g] EXCEPT !.members = Append(@, member)]
             ELSE groups[g]]
    ELSE Append(groups, [name |-> normalizedName, members |-> <<member>>])

RECURSIVE LeafSigFolderLoop(_)
RECURSIVE LeafSigFileLoop(_)

\* the loop of buildFolderSignature (lines 144-171) and the rest of the
\* iteration of its caller (lines 414-426)
LeafSigFileLoop(w) ==
    LET folderInfo == w.l.todo[w.l.k]
    IN  IF w.l.j > Len(folderInfo.files) \/ w.st.paused
        THEN IF w.st.paused
             THEN GroupLoop([w EXCEPT !.l.gi = 1, !.l.todo = <<>>, !.l.k = 1, !.l.j = 1,
                                      !.l.fileHashes = <<>>])
             ELSE LET signature == [hash      |-> Signature(w.l.fileHashes),
                                    fileCount |-> Len(w.l.fileHashes),
                                    totalSize |-> SumSizes(folderInfo.files)]
                      folderName == folderInfo.path[Len(folderInfo.path)]
                  IN  LeafSigFolderLoop([w EXCEPT
                          !.l.folderGroupsByName =
                              AddToGroup(@, normalizeFolderName(folderName),
                                         [signature |-> signature,
                                          folderInfo |-> folderInfo]),
                          !.l.k = @ + 1, !.l.j = 1, !.l.fileHashes = <<>>])
        ELSE OpenStream(w, SourceContent(folderInfo.files[w.l.j].path), "leafSigHash")

LeafSigHashed(w, rejected, hash) ==
    IF rejected THEN LeafSigFileLoop([w EXCEPT !.l.j = @ + 1])
    ELSE LET file == w.l.todo[w.l.k].files[w.l.j]
         IN  LeafSigFileLoop([w EXCEPT
                 !.l.fileHashes = Append(@, [name |-> file.name, size |-> file.size,
                                             hash |-> hash]),
                 !.l.j = @ + 1])

\* the loop over the leaf folders (lines 409-413)
LeafSigFolderLoop(w) ==
    IF w.l.k > Len(w.l.todo) \/ w.st.paused
    THEN GroupLoop([w EXCEPT !.l.gi = 1, !.l.todo = <<>>, !.l.k = 1, !.l.j = 1,
                             !.l.fileHashes = <<>>])
    ELSE LeafSigFileLoop([w EXCEPT !.l.j = 1, !.l.fileHashes = <<>>])

LeafSigStart(w) ==
    LeafSigFolderLoop([w EXCEPT
        !.l.todo = SelectSeq(w.st.folderList, LAMBDA f : f.isLeaf),
        !.l.k = 1, !.l.folderGroupsByName = <<>>])

(***************************************************************************)
(* The signatures of the top-level destination folders: lines 386-402 and  *)
(* 803-816, scanDestinationFolder (236-283) and                            *)
(* buildDestinationFolderSignature (285-304).                              *)
(***************************************************************************)
buildDestinationFolderSignature(files) ==
    LET fileHashes == [i \in 1..Len(files) |->
                          [name |-> files[i].name, size |-> files[i].size,
                           hash |-> files[i].hash]]
        sorted == SortByName(fileHashes)
    IN  [i \in 1..Len(sorted) |-> <<sorted[i].name, sorted[i].size, sorted[i].hash>>]

RECURSIVE DestSigDirLoop(_)
RECURSIVE DestSigFileLoop(_)

DestSigFileLoop(w) ==
    IF w.l.j > Len(w.l.todo2) \/ w.st.paused
    THEN DestSigDirLoop([w EXCEPT
            !.l.destinationFolderSignatures =
                @ \cup {buildDestinationFolderSignature(w.l.fileHashes)},
            !.l.k = @ + 1, !.l.j = 1, !.l.todo2 = <<>>, !.l.fileHashes = <<>>])
    ELSE LET name == w.l.todo2[w.l.j]
             dir  == w.l.todo[w.l.k]
         IN  IF Allowed(name, w.l.allowedExtensions) /\ FileExists(w.fs, dir, name)
             THEN OpenStream(w, ReadFile(w.fs, dir, name), "destSigHash")
             ELSE DestSigFileLoop([w EXCEPT !.l.j = @ + 1])

DestSigHashed(w, rejected, size, hash) ==
    IF rejected THEN DestSigFileLoop([w EXCEPT !.l.j = @ + 1])
    ELSE DestSigFileLoop([w EXCEPT
            !.l.fileHashes = Append(@, [name |-> w.l.todo2[w.l.j], size |-> size,
                                        hash |-> hash]),
            !.l.j = @ + 1])

DestSigDirLoop(w) ==
    IF w.l.k > Len(w.l.todo) \/ w.st.paused
    THEN IF w.l.handler = "start"
         THEN LeafSigStart(w)
         ELSE FileStart(w, w.st.currentIndex)
    ELSE DestSigFileLoop([w EXCEPT !.l.todo2 = FileNames(w.fs, w.l.todo[w.l.k]),
                                   !.l.j = 1, !.l.fileHashes = <<>>])

DestSigStart(w) ==
    DestSigDirLoop([w EXCEPT !.l.todo = DirNames(w.fs, orderRev), !.l.k = 1])

(***************************************************************************)
(* The destination ContentKey index: scanDestinationRecursive in           *)
(* start-process (lines 361-384), the flat loop in resume-process          *)
(* (lines 788-801).                                                        *)
(***************************************************************************)
\* the files scanDestinationRecursive visits, as [dir, name]
DestinationWalk(f) ==
    LET dirs == DirNames(f, orderRev)
        In(dir) == [n \in 1..Len(FileNames(f, dir)) |->
                        [dir |-> dir, name |-> FileNames(f, dir)[n]]]
    IN  In(Root) \o Concat([d \in 1..Len(dirs) |-> In(dirs[d])])

RECURSIVE scanDestinationRecursive(_)
scanDestinationRecursive(w) ==
    IF w.l.k > Len(w.l.todo) \/ w.st.paused THEN DestSigStart(w)
    ELSE LET e == w.l.todo[w.l.k]
         IN  IF FileExists(w.fs, e.dir, e.name)
             THEN OpenStream(w, ReadFile(w.fs, e.dir, e.name), "destIndexHash")
             ELSE scanDestinationRecursive([w EXCEPT !.l.k = @ + 1])

RECURSIVE ResumeIndexLoop(_)
ResumeIndexLoop(w) ==
    IF w.l.k > Len(w.l.todo) THEN DestSigStart(w)
    ELSE IF FileExists(w.fs, Root, w.l.todo[w.l.k])
    THEN OpenStream(w, ReadFile(w.fs, Root, w.l.todo[w.l.k]), "destIndexHash")
    ELSE ResumeIndexLoop([w EXCEPT !.l.k = @ + 1])

DestIndexHashed(w, rejected, size, hash) ==
    LET next == [w EXCEPT !.l.k = @ + 1,
                          !.l.destinationMap =
                              IF rejected THEN @ ELSE @ \cup {ContentKey(size, hash)}]
    IN  IF w.l.handler = "start" THEN scanDestinationRecursive(next)
                                 ELSE ResumeIndexLoop(next)

(***************************************************************************)
(* The scan of the sources (lines 345-350).                                *)
(***************************************************************************)
ScanLoop(w) ==
    IF w.l.k > Len(src) \/ w.st.paused
    THEN scanDestinationRecursive([w EXCEPT !.l.todo = DestinationWalk(w.fs), !.l.k = 1])
    ELSE [w EXCEPT !.l.pc = "scan"]

Scanned(w) ==
    LET found == scanDirectory(src[w.l.k], w.l.allowedExtensions)
    IN  ScanLoop([w EXCEPT !.st.fileList = @ \o found.files,
                           !.st.folderList = @ \o found.folders,
                           !.l.k = @ + 1])

(***************************************************************************)
(* hashFile (lines 61-82): the handlers of the stream's data and end       *)
(* events.                                                                 *)
(***************************************************************************)
\* stream.on('data') (lines 66-70)
StreamData(stream, paused) ==
    [stream EXCEPT !.pos = @ + 1,
                   !.acc = IF ~paused THEN Append(@, stream.content[stream.pos + 1]) ELSE @]

\* stream.on('end') (lines 72-78)
StreamEnd(stream, paused) ==
    [rejected |-> paused, hash |-> stream.acc]

HashPcs == {"destIndexHash", "destSigHash", "leafSigHash", "groupMapHash",
            "mergeHash", "fileHash"}

\* the code that follows `await hashFile(...)` at each of its call sites
AfterHash(w, pc, rejected, size, hash) ==
    CASE pc = "destIndexHash" -> DestIndexHashed(w, rejected, size, hash)
      [] pc = "destSigHash"   -> DestSigHashed(w, rejected, size, hash)
      [] pc = "leafSigHash"   -> LeafSigHashed(w, rejected, hash)
      [] pc = "groupMapHash"  -> GroupMapHashed(w, rejected, size, hash)
      [] pc = "mergeHash"     -> MergeHashed(w, rejected, size, hash)
      [] pc = "fileHash"      -> FileHashed(w, rejected, hash)

(***************************************************************************)
(* The state machine.                                                      *)
(***************************************************************************)
World(h) == [st |-> state, l |-> loc[h], fs |-> fs, ev |-> sent[h], log |-> log]

Commit(h, w) ==
    /\ state' = w.st
    /\ loc' = [loc EXCEPT ![h] = w.l]
    /\ fs' = w.fs
    /\ sent' = [sent EXCEPT ![h] = w.ev]
    /\ log' = w.log

Free(h) == loc[h].pc \in {"idle", "done"}

Invoke(name) == Len(ops) < MaxOps /\ ops' = Append(ops, name)

\* the state object as created (lines 8-23) and as start-process resets it
\* (lines 330-343)
FreshState ==
    [paused |-> FALSE, currentIndex |-> 0, deduplicationMap |-> {},
     fileList |-> <<>>, folderList |-> <<>>, folderMap |-> {},
     copiedFolders |-> {}, folderReport |-> <<>>, stats |-> ZeroStats]

allowedExtensions == {toLowerCase(e) : e \in extensions}

\* a start-process that clears the pause flag, the lists and the counters but
\* keeps the cursor and the deduplication map of the earlier run
StartProcessKeepsKeys ==
    /\ Free("start")
    /\ Invoke("start")
    /\ Commit("start",
              ScanLoop([World("start") EXCEPT
                  !.st = [FreshState EXCEPT
                             !.currentIndex = state.currentIndex,
                             !.deduplicationMap = state.deduplicationMap],
                  !.l = [Locals("start") EXCEPT !.allowedExtensions = allowedExtensions],
                  !.ev = NoEvents]))
    /\ fs0' = fs
    /\ UNCHANGED <<src, extensions, orderRev, proposal>>

\* ipcMain.handle('start-process') up to its first await (lines 328-349)
StartProcess ==
    /\ Free("start")
    /\ Invoke("start")
    /\ Commit("start",
              ScanLoop([World("start") EXCEPT
                  !.st = FreshState,
                  !.l = [Locals("start") EXCEPT !.allowedExtensions = allowedExtensions],
                  !.ev = NoEvents]))
    /\ fs0' = fs
    /\ UNCHANGED <<src, extensions, orderRev, proposal>>

\* scanDirectory of one source root has returned
ScanDone ==
    /\ loc["start"].pc = "scan"
    /\ Commit("start", Scanned(World("start")))
    /\ UNCHANGED <<ops, src, fs0, extensions, orderRev, proposal>>

\* a pause that also zeroes the counters
PauseProcessZeroesStats ==
    /\ Invoke("pause")
    /\ state' = [state EXCEPT !.paused = TRUE, !.stats = ZeroStats]
    /\ UNCHANGED <<loc, fs, sent, log, src, fs0, extensions, orderRev, proposal>>

\* ipcMain.handle('pause-process') (lines 621-623)
PauseProcess ==
    /\ Invoke("pause")
    /\ state' = [state EXCEPT !.paused = TRUE]
    /\ UNCHANGED <<loc, fs, sent, log, src, fs0, extensions, orderRev, proposal>>

\* ipcMain.handle('resume-process') up to its first suspension (lines 779-794)
ResumeProcess ==
    /\ Free("resume")
    /\ Invoke("resume")
    /\ Commit("resume",
              ResumeIndexLoop([World("resume") EXCEPT
                  !.st.paused = FALSE,
                  !.l = [Locals("resume") EXCEPT !.allowedExtensions = allowedExtensions,
                                                 !.todo = RecursiveNames(fs, Root)],
                  !.ev = NoEvents]))
    /\ UNCHANGED <<src, fs0, extensions, orderRev, proposal>>

\* a data event of the stream a handler is waiting for
HashData(h) ==
    /\ loc[h].pc \in HashPcs
    /\ loc[h].stream.pos < Len(loc[h].stream.content)
    /\ loc' = [loc EXCEPT ![h].stream = StreamData(@, state.paused)]
    /\ UNCHANGED <<state, fs, sent, log, ops, src, fs0, extensions, orderRev, proposal>>

\* the end event of the stream, and the handler's code up to its next await
HashEnd(h) ==
    /\ loc[h].pc \in HashPcs
    /\ loc[h].stream.pos = Len(loc[h].stream.content)
    /\ LET settled == StreamEnd(loc[h].stream, state.paused)
       IN  Commit(h, AfterHash([World(h) EXCEPT !.l.stream = NoStream], loc[h].pc,
                               settled.rejected, Len(loc[h].stream.content),
                               settled.hash))
    /\ UNCHANGED <<ops, src, fs0, extensions, orderRev, proposal>>

\* the error event of the stream (line 80): createReadStream could not open
\* the file, hashFile rejects, and the handler runs on to its next await
HashError(h) ==
    /\ loc[h].pc \in HashPcs
    /\ loc[h].stream.pos = 0
    /\ Invoke("hashError")
    /\ Commit(h, AfterHash([World(h) EXCEPT !.l.stream = NoStream], loc[h].pc,
                            TRUE, Len(loc[h].stream.content), <<>>))
    /\ UNCHANGED <<src, fs0, extensions, orderRev, proposal>>

\* fs.copyFile rejects (lines 220 and 593)
CopyError(h) ==
    /\ loc[h].pc \in {"mergeCopy", "fileCopy"}
    /\ Invoke("copyError")
    /\ Commit(h, IF loc[h].pc = "mergeCopy" THEN MergeCopyFailed(World(h))
                                            ELSE FileCopyFailed(World(h)))
    /\ UNCHANGED <<src, fs0, extensions, orderRev, proposal>>

MergeCopyDone(h) ==
    /\ loc[h].pc = "mergeCopy"
    /\ Commit(h, MergeCopied(World(h)))
    /\ UNCHANGED <<ops, src, fs0, extensions, orderRev, proposal>>

FileAccessDone(h) ==
    /\ loc[h].pc = "fileAccess"
    /\ Commit(h, FileAccessed(World(h)))
    /\ UNCHANGED <<ops, src, fs0, extensions, orderRev, proposal>>

FileProbeDone(h) ==
    /\ loc[h].pc = "fileProbe"
    /\ Commit(h, FileProbed(World(h)))
    /\ UNCHANGED <<ops, src, fs0, extensions, orderRev, proposal>>

FileCopyDone(h) ==
    /\ loc[h].pc = "fileCopy"
    /\ Commit(h, FileCopied(World(h)))
    /\ UNCHANGED <<ops, src, fs0, extensions, orderRev, proposal>>

(***************************************************************************)
(* merge-folders (lines 625-719) and confirm-merge (lines 721-777).        *)
(***************************************************************************)
DestName == <<"d", "s", "t">>

\* getAllFolders(destinationFolder): the leaf folders of the destination
getAllFolders(f) ==
    IF f.dirs = {}
    THEN << [path |-> Root, name |-> DestName, parent |-> Root, isLeaf |-> TRUE] >>
    ELSE [n \in 1..Len(DirNames(f, orderRev)) |->
             [path |-> DirNames(f, orderRev)[n], name |-> DirNames(f, orderRev)[n],
              parent |-> Root, isLeaf |-> TRUE]]

RECURSIVE GroupFolders(_, _)
GroupFolders(leafFolders, groups) ==
    IF leafFolders = <<>> THEN groups
    ELSE GroupFolders(Tail(leafFolders),
                      AddToGroup(groups, normalizeFolderName(Head(leafFolders).name),
                                 Head(leafFolders)))

\* lines 669-694: the groups with more than one member
foldersToMerge(f, paused) ==
    LET folderGroups == IF paused THEN <<>> ELSE GroupFolders(getAllFolders(f), <<>>)
        many == SelectSeq(folderGroups, LAMBDA g : Len(g.members) > 1)
    IN  [n \in 1..Len(many) |->
            [name |-> many[n].name, folders |-> many[n].members,
             parent |-> many[n].members[1].parent]]

\* ipcMain.handle('merge-folders') up to `await getAllFolders` (lines 653-668)
MergeFolders ==
    /\ Free("merge")
    /\ Invoke("merge")
    /\ state' = [state EXCEPT !.paused = FALSE, !.stats = ZeroStats]
    /\ loc' = [loc EXCEPT !["merge"] = [Locals("merge") EXCEPT !.pc = "mergeScan"]]
    /\ sent' = [sent EXCEPT !["merge"] = NoEvents]
    /\ UNCHANGED <<fs, log, src, fs0, extensions, orderRev, proposal>>

\* getAllFolders has returned: the rest of merge-folders (lines 669-711)
MergeScanDone ==
    /\ loc["merge"].pc = "mergeScan"
    /\ LET found == foldersToMerge(fs, state.paused)
       IN  /\ proposal' = IF found = <<>> THEN proposal ELSE found
           /\ sent' = [sent EXCEPT !["merge"] =
                          IF found = <<>> THEN [@ EXCEPT !.mergeComplete = @ + 1]
                                          ELSE [@ EXCEPT !.mergeConfirmation = @ + 1]]
    /\ loc' = [loc EXCEPT !["merge"] = [Locals("merge") EXCEPT !.pc = "done"]]
    /\ UNCHANGED <<state, fs, log, ops, src, fs0, extensions, orderRev>>

\* ipcMain.handle('confirm-merge') with the groups of the last
\* merge-confirmation, up to its first suspension (lines 721-746)
ConfirmMerge ==
    /\ Free("confirm")
    /\ proposal # <<>>
    /\ Invoke("confirm")
    /\ Commit("confirm",
              ConfirmGroupLoop([World("confirm") EXCEPT
                  !.st.paused = FALSE,
                  !.l = [Locals("confirm") EXCEPT !.foldersToMerge = proposal],
                  !.ev = NoEvents]))
    /\ UNCHANGED <<src, fs0, extensions, orderRev, proposal>>

ConfirmRmDone ==
    /\ loc["confirm"].pc = "confirmRm"
    /\ Commit("confirm", ConfirmRemoved(World("confirm")))
    /\ UNCHANGED <<ops, src, fs0, extensions, orderRev, proposal>>

(***************************************************************************)
(* The source and destination trees the runs are checked on.               *)
(***************************************************************************)
a_t == <<"a", ".", "t">>
b_t == <<"b", ".", "t">>
c_t == <<"c", ".", "t">>

NoFs == [files |-> {}, dirs |-> {}]

\* a root that is not a leaf (it has an empty directory): its three files,
\* two of them with the same bytes, are left to the file pass
FlatSource ==
    << [name |-> <<"s">>,
        entries |-> << File(a_t, <<1, 2>>), File(b_t, <<1, 2>>), File(c_t, <<2>>),
                       Dir(<<"d">>, <<>>) >>] >>

\* two leaf folders of one group holding the same file
TwinSource ==
    << [name |-> <<"s">>,
        entries |-> << Dir(<<"d">>, <<File(a_t, <<1>>)>>),
                       Dir(<<"d", "_", "c">>, <<File(a_t, <<1>>)>>) >>] >>

\* two leaf folders of one group holding different files of the same name
ClashSource ==
    << [name |-> <<"s">>,
        entries |-> << Dir(<<"d">>, <<File(a_t, <<1>>)>>),
                       Dir(<<"d", "_", "c">>, <<File(a_t, <<2>>)>>) >>] >>

\* a leaf folder, and a file beside it
TripSource ==
    << [name |-> <<"s">>,
        entries |-> << Dir(<<"t", "_", "2">>, <<File(a_t, <<1>>), File(b_t, <<2>>)>>),
                       File(c_t, <<1, 2>>) >>] >>

TripFs(dir) ==
    [files |-> {DFile(dir, a_t, <<1>>), DFile(dir, b_t, <<2>>)}, dirs |-> {dir}]

\* destination leaf folders p and p_b with overlapping and distinct files
PhotosFs ==
    [files |-> {DFile(<<"p">>, a_t, <<1>>), DFile(<<"p">>, b_t, <<2>>),
                DFile(<<"p", "_", "b">>, a_t, <<1>>),
                DFile(<<"p", "_", "b">>, c_t, <<1, 2>>)},
     dirs  |-> {<<"p">>, <<"p", "_", "b">>}]

\* the same folders holding different files of the same name
PhotosClashFs ==
    [files |-> {DFile(<<"p">>, a_t, <<1>>), DFile(<<"p", "_", "b">>, a_t, <<2>>)},
     dirs  |-> {<<"p">>, <<"p", "_", "b">>}]

\* a destination whose root holds a file named as a source file of the file
\* pass, with other bytes
RootClashFs == [files |-> {DFile(Root, a_t, <<2>>)}, dirs |-> {}]

\* two leaf folders of different groups, one of them with two underscores
AlphaSource ==
    << [name |-> <<"s">>,
        entries |-> << Dir(<<"c", "_", "d">>, <<File(a_t, <<1>>)>>),
                       Dir(<<"d", "_", "c", "_", "c">>, <<File(b_t, <<2>>)>>) >>] >>

Scenarios ==
    { [src |-> FlatSource,  fs |-> NoFs,             extensions |-> {}],
      [src |-> FlatSource,  fs |-> RootClashFs,      extensions |-> {}],
      [src |-> TwinSource,  fs |-> NoFs,             extensions |-> {}],
      [src |-> ClashSource, fs |-> NoFs,             extensions |-> {}],
      [src |-> AlphaSource, fs |-> NoFs,             extensions |-> {}],
      [src |-> TripSource,  fs |-> TripFs(<<"t">>),  extensions |-> {<<"T">>}],
      [src |-> TripSource,  fs |-> TripFs(<<"p">>),  extensions |-> {}],
      [src |-> <<>>,        fs |-> PhotosFs,         extensions |-> {}],
      [src |-> <<>>,        fs |-> PhotosClashFs,    extensions |-> {}] }

Init ==
    /\ \E sc \in Scenarios :
          /\ src = sc.src
          /\ fs = sc.fs
          /\ fs0 = sc.fs
          /\ extensions = sc.extensions
    \* the order of readdir matters once there are two directories to list
    /\ orderRev \in (IF Cardinality(fs.dirs) > 1 THEN BOOLEAN ELSE {FALSE})
    /\ state = FreshState
    /\ loc = [h \in Handlers |-> Locals(h)]
    /\ sent = [h \in Handlers |-> NoEvents]
    /\ log = <<>>
    /\ ops = <<>>
    /\ proposal = <<>>

Next ==
    \/ StartProcess
    \/ ScanDone
    \/ PauseProcess
    \/ ResumeProcess
    \/ MergeFolders
    \/ MergeScanDone
    \/ ConfirmMerge
    \/ ConfirmRmDone
    \/ \E h \in Handlers : HashData(h)
    \/ \E h \in Handlers : HashEnd(h)
    \/ \E h \in Handlers : HashError(h)
    \/ \E h \in Handlers : CopyError(h)
    \/ \E h \in Handlers : MergeCopyDone(h)
    \/ \E h \in Handlers : FileAccessDone(h)
    \/ \E h \in Handlers : FileProbeDone(h)
    \/ \E h \in Handlers : FileCopyDone(h)

Spec == Init /\ [][Next]_vars

(***************************************************************************)
(* Properties.                                                             *)
(***************************************************************************)
RunHandlers == {"start", "resume"}

FilePassPcs == {"fileHash", "fileAccess", "fileProbe", "fileCopy"}

\* handler h returns in this step
Returns(h) ==
    /\ loc'[h].pc = "done"
    /\ \/ loc[h].pc \notin {"idle", "done"}
       \/ (Len(ops') > Len(ops) /\ ops'[Len(ops')] = h)

\* the renderer made exactly these invocations and every handler has returned
Finished(invocations) ==
    /\ ops = invocations
    /\ \A h \in Handlers : Free(h)

\* C1: when the pause flag stops the file pass while file i is being hashed,
\* the saved cursor is i (so that resume-process hashes file i again).
C1_CursorIsPausedFile ==
    [][\A h \in RunHandlers :
          (loc[h].pc = "fileHash" /\ state.paused /\ Returns(h))
              => state'.currentIndex = loc[h].i]_vars

\* C2: a second complete start-process over the same sources and destination
\* copies nothing, leaves the destination as the first run left it, and
\* reports copied = 0.
C2_SecondRunCopiesNothing ==
    (Finished(<<"start", "start">>) /\ sent["start"].processComplete = 1)
        => /\ \A n \in 1..Len(log) : log[n].run # 2
           /\ fs = fs0
           /\ state.stats.copied = 0

\* C3 as claimed: every returned invocation of start-process and of
\* resume-process has sent exactly one process-complete event.
C3_ExactlyOneProcessComplete ==
    \A h \in RunHandlers : loc[h].pc = "done" => sent[h].processComplete = 1

\* C3 as amended: an invocation of start-process or resume-process never
\* sends more than one process-complete event, and when it returns it has
\* sent one if the pause flag is clear at that moment and none if it is set.
C3_ProcessCompleteUnlessPaused ==
    /\ [](\A h \in RunHandlers : sent[h].processComplete <= 1)
    /\ [][\A h \in RunHandlers :
             Returns(h) =>
                 sent'[h].processComplete = (IF state'.paused THEN 0 ELSE 1)]_vars

\* a run stopped by pause in the middle of the file pass has returned without
\* the event
C3_Witness ==
    /\ loc["start"].pc = "done"
    /\ state.paused
    /\ state.stats.scanned > 0
    /\ state.currentIndex > 0
    /\ sent["start"].processComplete = 0

\* C4: two leaf folders of one group hold the same file: a complete run writes
\* the content once, counts one file as copied and the other as duplicate.
C4_TwinCopiedOnce ==
    (src = TwinSource /\ Finished(<<"start">>) /\ sent["start"].processComplete = 1)
        => /\ Cardinality({n \in 1..Len(log) : log[n].content = <<1>>}) = 1
           /\ state.stats.copied = 1
           /\ state.stats.duplicates = 1

\* C5: a source leaf folder whose signature equals that of a top-level
\* destination folder is absorbed as a duplicate, none of its files is copied,
\* and nothing is written or created in the destination on its behalf: the
\* destination folder its report entry names was there before the run unless a
\* merged member of the same group needed it.
C5_DuplicateFolderTouchesNothing ==
    \A n \in 1..Len(state.folderReport) :
        LET r == state.folderReport[n]
        IN  r.status = "Duplicate (Exists in Destination)"
                => /\ r.sourcePath \in state.copiedFolders
                   /\ \A e \in 1..Len(log) :
                         ~(log[e].by = "start" /\ log[e].run = Runs
                             /\ IsPrefix(r.sourcePath, log[e].from))
                   /\ \/ DirExists(fs0, r.destinationPath)
                      \/ \E m \in 1..Len(state.folderReport) :
                            /\ state.folderReport[m].destinationPath = r.destinationPath
                            /\ state.folderReport[m].status = "Copied"

\* C6: after merge-folders and confirm-merge, for every proposed group the
\* folder named by the normalized name exists, holds every content the
\* members held, and the other members are gone.
C6_MergedIntoNormalizedName ==
    (Finished(<<"merge", "confirm">>) /\ sent["confirm"].mergeComplete = 1)
        => \A g \in 1..Len(proposal) :
              LET members == {proposal[g].folders[m].path :
                                 m \in 1..Len(proposal[g].folders)}
              IN  /\ DirExists(fs, proposal[g].name)
                  /\ \A d \in members \ {proposal[g].name} : ~DirExists(fs, d)
                  /\ \A x \in fs0.files :
                        x.dir \in members =>
                            \E y \in fs.files :
                                y.dir = proposal[g].name /\ y.content = x.content

\* C7: the file passes of start-process and resume-process are never in
\* progress at the same time.
C7_SingleActiveRun ==
    ~(loc["start"].pc \in FilePassPcs /\ loc["resume"].pc \in FilePassPcs)

\* C8: resume-process replays the Folder Merge phase before the file pass:
\* when a paused run has been resumed to completion, every source leaf folder
\* has been merged or found duplicate.
C8_ResumeReplaysFolderMerge ==
    (Finished(<<"start", "pause", "resume">>) /\ sent["resume"].processComplete = 1)
        => \A f \in Range(state.folderList) : f.isLeaf => f.path \in state.copiedFolders

\* C9: every digest hashFile yields is the digest of all the bytes of the
\* file: every key the file pass registered is the ContentKey of a source file.
C9_DigestCoversWholeFile ==
    \A key \in state.deduplicationMap :
        \E file \in Range(state.fileList) : key = TrueKey(SourceContent(file.path))

\* C10: over one run, pauses and resumes included, the file pass copies at
\* most one file per ContentKey.
C10_OneCopyPerContentKey ==
    \A m, n \in 1..Len(log) :
        (m # n /\ log[m].phase = "file" /\ log[n].phase = "file"
              /\ log[m].run = log[n].run)
            => TrueKey(log[m].content) # TrueKey(log[n].content)

\* C11: start-process resets the whole run state before any phase runs: when
\* the handler reaches its first suspension inside the scan, the pause flag is
\* false, the cursor 0, the maps, lists, absorbed set and report empty and the
\* four counters zero, whatever earlier invocations left behind.
C11_StartResetsRunState ==
    [][(ops' = Append(ops, "start") /\ loc'["start"].pc = "scan")
          => /\ state'.paused = FALSE
             /\ state'.currentIndex = 0
             /\ state'.deduplicationMap = {}
             /\ state'.fileList = <<>>
             /\ state'.folderList = <<>>
             /\ state'.folderMap = {}
             /\ state'.copiedFolders = {}
             /\ state'.folderReport = <<>>
             /\ state'.stats.scanned = 0
             /\ state'.stats.copied = 0
             /\ state'.stats.duplicates = 0
             /\ state'.stats.sizeCopied = 0]_vars

\* a second start-process, after a run that scanned, registered keys and
\* copied, is suspended in its scan over a reset state
C11_Witness ==
    /\ Len(ops) > 1
    /\ ops[1] = "start"
    /\ ops[Len(ops)] = "start"
    /\ loc["start"].pc = "scan"
    /\ \E n \in 1..Len(log) : log[n].run = 1 /\ log[n].phase = "file"
    /\ state.deduplicationMap = {}
    /\ state.stats = ZeroStats

\* C12: pause-process sets the pause flag and changes nothing else of the run
\* state, no handler's position, no file and no event.
C12_PauseSetsOnlyFlag ==
    [][ops' = Append(ops, "pause")
          => /\ state'.paused = TRUE
             /\ state' = [state EXCEPT !.paused = TRUE]
             /\ UNCHANGED <<loc, fs, sent, log>>]_vars

\* a run with files scanned and keys registered has just been paused
C12_Witness ==
    /\ Len(ops) > 0
    /\ ops[Len(ops)] = "pause"
    /\ state.paused
    /\ state.stats.scanned > 0
    /\ state.deduplicationMap # {}
    /\ loc["start"].pc \in FilePassPcs

\* the groups of destination leaf folders with one NormalizedName and more than
\* one member, as sets of folder names
DuplicateNamedGroups(f) ==
    {g \in {{d \in f.dirs : normalizeFolderName(d) = normalizeFolderName(e)} : e \in f.dirs} :
        Cardinality(g) > 1}

\* C13: a merge-folders invocation sends exactly one of merge-confirmation and
\* merge-complete: merge-confirmation, listing exactly the groups of destination
\* leaf folders with one NormalizedName and more than one member, when there is
\* such a group, and merge-complete when there is none.
C13_MergeFoldersProposesEveryGroup ==
    [][Returns("merge") =>
          /\ sent'["merge"].mergeConfirmation + sent'["merge"].mergeComplete = 1
          /\ IF DuplicateNamedGroups(fs) # {}
             THEN /\ sent'["merge"].mergeConfirmation = 1
                  /\ {Range([m \in 1..Len(proposal'[g].folders) |->
                                proposal'[g].folders[m].path]) :
                         g \in 1..Len(proposal')} = DuplicateNamedGroups(fs)
             ELSE sent'["merge"].mergeComplete = 1]_vars

\* the name cut before its first underscore, the whole name when it has none
TruncatedAtFirstUnderscore(name) ==
    CHOOSE p \in {SubSeq(name, 1, k) : k \in 0..Len(name)} :
        /\ \A i \in 1..Len(p) : p[i] # "_"
        /\ Len(p) = Len(name) \/ name[Len(p) + 1] = "_"

basename(path) == path[Len(path)]

\* C14: normalizeFolderName cuts a folder's base name before its first
\* underscore and is idempotent; the Folder Merge phase keeps one group per
\* NormalizedName, every source leaf folder it groups is in the group of its
\* NormalizedName, and a folder is merged into or found duplicate under
\* <destination>/<NormalizedName>: two folders share a group and a destination
\* folder exactly when their NormalizedNames are equal.
C14_GroupedByNormalizedName ==
    /\ \A f \in Range(state.folderList) :
          LET name == basename(f.path)
          IN  /\ normalizeFolderName(name) = TruncatedAtFirstUnderscore(name)
              /\ normalizeFolderName(normalizeFolderName(name)) = normalizeFolderName(name)
    /\ LET groups == loc["start"].folderGroupsByName
       IN  /\ \A g, k \in 1..Len(groups) : groups[g].name = groups[k].name => g = k
           /\ \A g \in 1..Len(groups) : \A m \in 1..Len(groups[g].members) :
                 TruncatedAtFirstUnderscore(basename(groups[g].members[m].folderInfo.path))
                     = groups[g].name
    /\ \A n \in 1..Len(state.folderReport) :
          state.folderReport[n].destinationPath
              = TruncatedAtFirstUnderscore(basename(state.folderReport[n].sourcePath))

\* a completed run has merged d_c_c into d and c_d into c
C14_Witness ==
    /\ Finished(<<"start">>)
    /\ sent["start"].processComplete = 1
    /\ \E n, k \in 1..Len(state.folderReport) :
          /\ basename(state.folderReport[n].sourcePath) = <<"d", "_", "c", "_", "c">>
          /\ basename(state.folderReport[k].sourcePath) = <<"c", "_", "d">>
          /\ state.folderReport[n].destinationPath = <<"d">>
          /\ state.folderReport[k].destinationPath = <<"c">>
          /\ DirExists(fs, <<"d">>) /\ DirExists(fs, <<"c">>)

\* every order in which readdir can list the files of a set of (name, size,
\* hash) triples
Orderings(triples) ==
    {q \in [1..Cardinality(triples) -> triples] : Range(q) = triples}

AsFileHashes(q) ==
    [i \in 1..Len(q) |-> [name |-> q[i][1], size |-> q[i][2], hash |-> q[i][3]]]

\* both builders yield sig for the triples of sig in whatever order they come
OrderIndependent(sig) ==
    \A q \in Orderings(Range(sig)) :
        /\ Signature(AsFileHashes(q)) = sig
        /\ buildDestinationFolderSignature(AsFileHashes(q)) = sig

\* C15: the signature of a folder depends only on the set of (name, size, hash)
\* triples of its direct files: for every signature the run computed, of a
\* source leaf folder or of a destination folder, buildFolderSignature and
\* buildDestinationFolderSignature both yield that same signature for every
\* enumeration order of its triples.
C15_SignatureOrderIndependent ==
    \A h \in RunHandlers :
        /\ \A g \in 1..Len(loc[h].folderGroupsByName) :
              \A m \in 1..Len(loc[h].folderGroupsByName[g].members) :
                 OrderIndependent(loc[h].folderGroupsByName[g].members[m].signature.hash)
        /\ \A sig \in loc[h].destinationFolderSignatures : OrderIndependent(sig)

\* the signature of a source folder of two files equals the signature computed
\* for a destination folder
C15_Witness ==
    \E g \in 1..Len(loc["start"].folderGroupsByName) :
        \E m \in 1..Len(loc["start"].folderGroupsByName[g].members) :
            LET sig == loc["start"].folderGroupsByName[g].members[m].signature.hash
            IN  /\ Len(sig) = 2
                /\ sig \in loc["start"].destinationFolderSignatures

\* C16: when confirm-merge deletes a non-primary member directory, every file
\* of that directory has its content in the primary folder of the group.
C16_DeletesOnlyFullyMerged ==
    [][(loc["confirm"].pc = "confirmRm" /\ loc'["confirm"].pc # "confirmRm")
          => \A x \in fs.files :
                x.dir = loc["confirm"].sourcePath
                    => \E y \in fs.files :
                          /\ y.dir = loc["confirm"].destFolderPath
                          /\ TrueKey(y.content) = TrueKey(x.content)]_vars

\* C17: a source leaf folder gets the report status Copied (and joins the
\* absorbed set) only when its merge reached every one of its files: at that
\* moment every file of the folder has its content in the destination folder
\* the report names.
C17_CopiedOnlyWhenFullyMerged ==
    [][\A n \in (Len(state.folderReport) + 1)..Len(state'.folderReport) :
          LET r == state'.folderReport[n]
          IN  r.status = "Copied"
                  => /\ r.sourcePath \in state'.copiedFolders
                     /\ \A e \in Range(SourceEntries(r.sourcePath)) :
                           \E y \in fs'.files :
                               /\ y.dir = r.destinationPath
                               /\ TrueKey(y.content) = TrueKey(e.content)]_vars

\* C18: no copy, of the Folder Merge phase, of the file pass or of
\* confirm-merge, replaces an existing destination file whose content differs
\* from the content copied.
C18_NoOverwrite ==
    [][Len(log') > Len(log)
          => LET e == log'[Len(log')]
             IN  FileExists(fs, e.dir, e.name) => ReadFile(fs, e.dir, e.name) = e.content]_vars

\* C19: when a run has completed without a pause, every source file that
\* passed the extension filter has its content somewhere in the destination,
\* and so has every ContentKey the run registered in its dedup set.
C19_NoContentLoss ==
    (Finished(<<"start">>) /\ sent["start"].processComplete = 1)
        => /\ \A file \in Range(state.fileList) :
                 \E y \in fs.files : TrueKey(y.content) = TrueKey(SourceContent(file.path))
           /\ \A key \in state.deduplicationMap :
                 \E y \in fs.files : TrueKey(y.content) = key

\* handler h begins to hash a file of the file pass in this step
HashesFile(h) ==
    /\ loc'[h].pc = "fileHash"
    /\ loc[h].pc # "fileHash" \/ loc'[h].i # loc[h].i

\* the owning folder of a file is absorbed, or lies inside an absorbed folder
InAbsorbedFolder(file, copiedFolders) ==
    \E folderPath \in copiedFolders :
        IsPrefix(folderPath, file.path) /\ Len(file.path) > Len(folderPath)

\* C20: the file pass of start-process and of resume-process never begins to
\* hash (and so never counts as scanned, nor copies) a file whose owning
\* folder is in the absorbed-folder set or inside an absorbed folder.
C20_FilePassSkipsAbsorbed ==
    [][\A h \in RunHandlers :
          HashesFile(h) => ~InAbsorbedFolder(loc'[h].file, state'.copiedFolders)]_vars

\* C21: in the file pass a file whose name is already taken at its destination
\* path is counted as duplicate and not copied, and no file is ever written
\* under a numeric-suffixed name: every copy of the file pass lands under the
\* name of its source file.
C21_CollisionIsDuplicateNeverRenamed ==
    /\ [](\A n \in 1..Len(log) :
             log[n].phase = "file" => log[n].name = basename(log[n].from))
    /\ [][\A h \in RunHandlers :
             (/\ loc[h].pc = "fileAccess"
              /\ loc'[h] # loc[h]
              /\ FileExists(fs, loc[h].destFolderPath, loc[h].file.name))
                 => /\ state'.stats.duplicates = state.stats.duplicates + 1
                    /\ state'.stats.copied = state.stats.copied
                    /\ log' = log]_vars

\* a start-process that met nothing but I/O failures has run to completion
CompletedWithFailures ==
    /\ \A h \in Handlers : Free(h)
    /\ Len(ops) > 0
    /\ ops[1] = "start"
    /\ \A n \in 2..Len(ops) : ops[n] \in {"hashError", "copyError"}
    /\ sent["start"].processComplete = 1

\* C22: a file of the file pass whose hash or copy failed leaves no trace: it
\* is counted in none of scanned, copied and duplicates and its key is not in
\* the dedup set.  So when a run whose files all go through the file pass has
\* completed, every file counted in scanned is counted in copied or in
\* duplicates, and every key of the dedup set is a content of the destination.
C22_FailedFileLeavesNoTrace ==
    (CompletedWithFailures /\ src = FlatSource)
        => /\ state.stats.scanned = state.stats.copied + state.stats.duplicates
           /\ \A key \in state.deduplicationMap :
                 \E y \in fs.files : TrueKey(y.content) = key

\* the positions of a run handler behind its destination indexing
IndexedPcs == {"destSigHash", "leafSigHash", "groupMapHash", "mergeHash", "mergeCopy",
               "fileHash", "fileAccess", "fileProbe", "fileCopy"}

\* C23: the destination ContentKey index a run handler has built, undisturbed
\* by a pause, a failure or another handler, holds the key of every file under
\* the destination root; so the index of resume-process equals the index of
\* start-process for the same destination tree.
C23_IndexHoldsEveryDestinationKey ==
    \A h \in RunHandlers :
        (ops = <<h>> /\ loc[h].pc \in IndexedPcs /\ fs = fs0)
            => loc[h].destinationMap = AllKeys(fs0)

CopyPcs == {"mergeCopy", "fileCopy"}

\* C24: while the pause flag is set and stays set, a handler begins no copy
\* (only a copy already in flight completes), and the counters change only in
\* the step that completes that copy.
C24_PauseStopsAtNextSuspension ==
    [][(state.paused /\ state'.paused)
          => \A h \in Handlers :
                /\ loc'[h].pc \in CopyPcs => loc[h].pc = loc'[h].pc
                /\ (loc'[h] # loc[h] /\ state'.stats # state.stats)
                      => (loc[h].pc \in CopyPcs /\ Len(log') > Len(log))]_vars

\* the files of the file list that no absorbed folder holds
NonAbsorbedFiles ==
    {n \in 1..Len(state.fileList) :
        ~InAbsorbedFolder(state.fileList[n], state.copiedFolders)}

\* C25: the cursor is an index into the file list (or its length), and over a
\* run with any number of pause/resume cycles scanned never exceeds the number
\* of non-absorbed files of the list, each of them being counted at most once.
C25_CursorAndScannedBounded ==
    /\ state.currentIndex \in 0..Len(state.fileList)
    /\ state.stats.scanned <= Cardinality(NonAbsorbedFiles)

====
